---- MODULE Spec2Model ----
(***************************************************************************)
(* Model of the ComplianceEngine ARC4 contract                             *)
(* (src/smart_contracts/compliance_engine/contract.py).                    *)
(*                                                                         *)
(* Byte strings are sequences of byte values (0..255).  The box store is a *)
(* function from box names to box contents.  One application call is one   *)
(* action: the handler runs on a working copy of the ledger (a context     *)
(* record), every assert / failing opcode stops it, and AppCall commits    *)
(* the working copy only when the handler ran to its return.  What a call  *)
(* hands back to its sender (error, return value, emitted events) is the   *)
(* context the handler ended with; the contract itself keeps only boxes    *)
(* and created assets.                                                     *)
(***************************************************************************)
EXTENDS Integers, Sequences, FiniteSets, TLC

VARIABLES
    boxes,    \* box storage of the application: box name -> contents
    assets,   \* assets created by committed inner transactions, in order
    written,  \* history: per batch id, the values committed to its state box
    tokens,   \* history: per batch id, the values committed to its asset box
    created,  \* history: per sender, the batch ids of its committed
              \* create_batch_v2 calls, in call order
    observed, \* is the event log of the ledger being followed in this run
    audit,    \* when followed: the events of the committed calls, in order
    calls     \* when followed: the committed calls of assign_role,
              \* create_batch_v2, approve_batch_v2 and certify_batch, in order

vars == <<boxes, assets, written, tokens, created, observed, audit, calls>>

\* ------------------------------------------------------------------ bounds

\* Number of batches created in one run.
MaxBatches == 2

\* Number of events in the log of a run that follows it.
MaxEvents == 4

\* ------------------------------------------------------- program constants

STATUS_CREATED == 0
STATUS_APPROVED == 1
STATUS_CERTIFIED == 2

ROLE_ADMIN == 0
ROLE_VENDOR == 1
ROLE_INSPECTOR == 2

\* Sentinels of the read-only methods.
NOT_FOUND == 99
ROLE_NONE == 99
NO_ASSET == 0

\* Box name prefixes: b"role:", b"batch:", b"asset:", b"vendor:".
ROLE_PREFIX == <<114, 111, 108, 101, 58>>
BATCH_PREFIX == <<98, 97, 116, 99, 104, 58>>
ASSET_PREFIX == <<97, 115, 115, 101, 116, 58>>
VENDOR_PREFIX == <<118, 101, 110, 100, 111, 114, 58>>
\* b"CERT-", the asset name prefix, and b"|", the vendor list delimiter.
CERT_PREFIX == <<67, 69, 82, 84, 45>>
PIPE == <<124>>

\* ---------------------------------------------------------------- inputs

\* Global.creator_address: the Administrator identity.
creator_address == <<65>>

\* Account identities (Address.bytes), shortened to one byte each.
Accounts == {<<65>>, <<88>>, <<89>>}

\* Batch identifiers a caller may pass: b"a", b"\xff" (not UTF-8) and
\* b"a|a" (holding the delimiter of the vendor list).
BatchIds == {<<97>>, <<255>>, <<97, 124, 97>>}

\* Role codes a caller may pass to assign_role.
RoleArgs == {0, 1, 2, 3}

\* Integer batch ids of the original (integer-keyed) methods.
LegacyIds == {0, 7}

\* ------------------------------------------------------------ conversions

\* The k low-order bytes of n, most significant first.
RECURSIVE BigEndian(_, _)
BigEndian(n, k) ==
    IF k = 0 THEN <<>> ELSE Append(BigEndian(n \div 256, k - 1), n % 256)

\* op.itob: 8-byte big-endian encoding of a uint64.
itob(n) == BigEndian(n, 8)

\* op.btoi: big-endian decoding.
RECURSIVE btoi(_)
btoi(b) ==
    IF Len(b) = 0 THEN 0
    ELSE btoi(SubSeq(b, 1, Len(b) - 1)) * 256 + b[Len(b)]

\* One lowercase hexadecimal digit, as an ASCII byte.
HexDigit(n) == IF n < 10 THEN 48 + n ELSE 87 + n

\* bytes.hex(): two lowercase hexadecimal digits per byte.
hex(b) ==
    [i \in 1..(2 * Len(b)) |->
        IF i % 2 = 1 THEN HexDigit(b[(i + 1) \div 2] \div 16)
        ELSE HexDigit(b[i \div 2] % 16)]

\* Is b[i] a UTF-8 continuation byte within lo..hi.
Cont(b, i, lo, hi) == i <= Len(b) /\ b[i] >= lo /\ b[i] <= hi

\* Is b, from position i on, well-formed UTF-8.
RECURSIVE Utf8From(_, _)
Utf8From(b, i) ==
    IF i > Len(b) THEN TRUE
    ELSE LET c == b[i] IN
      IF c < 128 THEN Utf8From(b, i + 1)
      ELSE IF c >= 194 /\ c <= 223
      THEN Cont(b, i + 1, 128, 191) /\ Utf8From(b, i + 2)
      ELSE IF c >= 224 /\ c <= 239
      THEN /\ Cont(b, i + 1, IF c = 224 THEN 160 ELSE 128,
                              IF c = 237 THEN 159 ELSE 191)
           /\ Cont(b, i + 2, 128, 191)
           /\ Utf8From(b, i + 3)
      ELSE IF c >= 240 /\ c <= 244
      THEN /\ Cont(b, i + 1, IF c = 240 THEN 144 ELSE 128,
                              IF c = 244 THEN 143 ELSE 191)
           /\ Cont(b, i + 2, 128, 191)
           /\ Cont(b, i + 3, 128, 191)
           /\ Utf8From(b, i + 4)
      ELSE FALSE

\* bytes.decode(): strict UTF-8; it raises on anything else.
CanDecode(b) == Utf8From(b, 1)

\* ------------------------------------------------------------ box storage

EmptyBoxes == [k \in {} |-> <<>>]

\* op.Box.get: (contents, exists).
BoxGet(bx, key) ==
    IF key \in DOMAIN bx THEN [val |-> bx[key], exists |-> TRUE]
    ELSE [val |-> <<>>, exists |-> FALSE]

\* The working copy a handler runs on: the ledger as the call finds it, the
\* box writes (puts) and events (log) of this call so far, and its outcome.
\* err is "OK" while the handler runs.
Ctx(bx, as) ==
    [boxes |-> bx, assets |-> as, puts |-> <<>>, log |-> <<>>,
     err |-> "OK", ret |-> 0, retBytes |-> <<>>]

\* The working copy of a call made in the current state.
Start == Ctx(boxes, assets)

\* A failed assert (or failing opcode): the handler stops with this error.
\* The errors, by the assert that raises them:
\*   "Unauthorized"      "Only admin can assign roles", "Sender has no
\*                       assigned role", "Only ROLE_VENDOR can create
\*                       batches", "Only ROLE_INSPECTOR can approve batches",
\*                       "Only admin or ROLE_INSPECTOR can certify"
\*   "InvalidArgument"   "Invalid role"
\*   "AlreadyExists"     "Batch already exists"
\*   "NotFound"          "Batch does not exist"
\*   "InvalidTransition" "Batch must be in CREATED state", "Batch must be in
\*                       APPROVED state"
\*   "MintingFailure"    the inner AssetConfig transaction is refused
\*   "BoxPutFailure"     op.Box.put on an existing box of another length
\*   "DecodeFailure"     bytes.decode() of bytes that are not UTF-8
Fail(ctx, e) == [ctx EXCEPT !.err = e]

\* The handler's return value.
Return(ctx, v) == [ctx EXCEPT !.ret = v]

\* op.Box.put: replaces the contents of the box, creating it when absent;
\* fails when the box exists with contents of another length.
BoxPut(ctx, key, val) ==
    IF key \in DOMAIN ctx.boxes /\ Len(ctx.boxes[key]) # Len(val)
    THEN Fail(ctx, "BoxPutFailure")
    ELSE [ctx EXCEPT
            !.boxes = [k \in DOMAIN ctx.boxes \cup {key} |->
                          IF k = key THEN val ELSE ctx.boxes[k]],
            !.puts = Append(ctx.puts, [key |-> key, val |-> val])]

\* arc4.emit(name, log_event).
Emit(ctx, name, data) ==
    [ctx EXCEPT !.log = Append(ctx.log, [name |-> name, data |-> data])]

\* Variant: the sender is written before the subject.
LogEvent_SenderFirst(tag, subject, sender) ==
    tag \o hex(sender) \o PIPE \o hex(subject)

\* The audit record: name "|" hex(subject) "|" hex(sender).
LogEvent(tag, subject, sender) == tag \o hex(subject) \o PIPE \o hex(sender)

\* -------------------------------------------------------- original methods

\* None of them reads Txn.sender or the boxes.

\* Variant: the batch is recorded as Created under its 8-byte identifier.
create_batch_Stored(ctx, batch_id) ==
    Return(BoxPut(ctx, BATCH_PREFIX \o itob(batch_id), itob(0)), 0)

\* create_batch(batch_id: UInt64)
create_batch(ctx, batch_id) == Return(ctx, 0)

\* approve_batch(batch_id: UInt64)
approve_batch(ctx, batch_id) == Return(ctx, 1)

\* get_batch_status(batch_id: UInt64)
get_batch_status(ctx, batch_id) == Return(ctx, 1)

\* ------------------------------------------------------------- assign_role

\* Variant: the role code is not checked.
assign_role_AnyRole(ctx, sender, account, role) ==
    IF sender # creator_address THEN Fail(ctx, "Unauthorized")
    ELSE
      LET key == ROLE_PREFIX \o account
          c1 == BoxPut(ctx, key, itob(role))
      IN  IF c1.err # "OK" THEN c1
          ELSE Return(
                 Emit(c1, "assign_role",
                      LogEvent(<<97, 115, 115, 105, 103, 110, 95, 114, 111,
                                 108, 101, 124>>, account, sender)),
                 role)

assign_role(ctx, sender, account, role) ==
    IF sender # creator_address THEN Fail(ctx, "Unauthorized")
    ELSE IF ~(role = 1 \/ role = 2) THEN Fail(ctx, "InvalidArgument")
    ELSE
      LET key == ROLE_PREFIX \o account
          c1 == BoxPut(ctx, key, itob(role))
      IN  IF c1.err # "OK" THEN c1
          ELSE Return(
                 Emit(c1, "assign_role",
                      LogEvent(<<97, 115, 115, 105, 103, 110, 95, 114, 111,
                                 108, 101, 124>>, account, sender)),
                 role)

\* --------------------------------------------------------- create_batch_v2

\* Variant: any stored role passes.
CreateRoleCheck_AnyRole(ctx, sender) ==
    LET role_key == ROLE_PREFIX \o sender
        r == BoxGet(ctx.boxes, role_key)
    IN  IF ~r.exists THEN "Unauthorized" ELSE "OK"

\* Role check: the sender must hold a stored role, and it must be ROLE_VENDOR.
CreateRoleCheck(ctx, sender) ==
    LET role_key == ROLE_PREFIX \o sender
        r == BoxGet(ctx.boxes, role_key)
    IN  IF ~r.exists THEN "Unauthorized"
        ELSE IF btoi(r.val) # 1 THEN "Unauthorized"
        ELSE "OK"

\* Variant: the existence of the batch is not checked.
CreateStateCheck_None(ctx, batch_id) == "OK"

\* State check: the batch must not already exist.
CreateStateCheck(ctx, batch_id) ==
    LET state_key == BATCH_PREFIX \o batch_id
        s == BoxGet(ctx.boxes, state_key)
    IN  IF s.exists THEN "AlreadyExists" ELSE "OK"

\* Variant: one list for all vendors, under the bare prefix.
AppendBatch_SharedList(ctx, sender, batch_id) ==
    LET vendor_key == VENDOR_PREFIX
        e == BoxGet(ctx.boxes, vendor_key)
        new_val == IF e.exists THEN e.val \o PIPE \o batch_id ELSE batch_id
    IN  BoxPut(ctx, vendor_key, new_val)

\* Feature 4: the vendor's list, with batch_id appended.
AppendBatch(ctx, sender, batch_id) ==
    LET vendor_key == VENDOR_PREFIX \o sender
        e == BoxGet(ctx.boxes, vendor_key)
        new_val == IF e.exists THEN e.val \o PIPE \o batch_id ELSE batch_id
    IN  BoxPut(ctx, vendor_key, new_val)

create_batch_v2(ctx, sender, batch_id) ==
    IF CreateRoleCheck(ctx, sender) # "OK"
    THEN Fail(ctx, CreateRoleCheck(ctx, sender))
    ELSE IF CreateStateCheck(ctx, batch_id) # "OK"
    THEN Fail(ctx, CreateStateCheck(ctx, batch_id))
    ELSE
      LET state_key == BATCH_PREFIX \o batch_id
          c1 == BoxPut(ctx, state_key, itob(0))
      IN
      IF c1.err # "OK" THEN c1
      ELSE
        LET c2 == AppendBatch(c1, sender, batch_id) IN
        IF c2.err # "OK" THEN c2
        ELSE Return(
               Emit(c2, "create_batch",
                    LogEvent(<<99, 114, 101, 97, 116, 101, 95, 98, 97,
                               116, 99, 104, 124>>, batch_id, sender)),
               0)

\* -------------------------------------------------------- approve_batch_v2

\* Role check: the sender must hold a stored role, and it must be
\* ROLE_INSPECTOR.
ApproveRoleCheck(ctx, sender) ==
    LET role_key == ROLE_PREFIX \o sender
        r == BoxGet(ctx.boxes, role_key)
    IN  IF ~r.exists THEN "Unauthorized"
        ELSE IF btoi(r.val) # 2 THEN "Unauthorized"
        ELSE "OK"

\* Variant: the state is checked, the existence of the batch is not (op.btoi
\* of the empty contents of an absent box is 0).
ApproveStateCheck_NoExists(ctx, batch_id) ==
    LET state_key == BATCH_PREFIX \o batch_id
        s == BoxGet(ctx.boxes, state_key)
    IN  IF btoi(s.val) # 0 THEN "InvalidTransition" ELSE "OK"

\* Variant: the existence of the batch is checked, its state is not.
ApproveStateCheck_AnyState(ctx, batch_id) ==
    LET state_key == BATCH_PREFIX \o batch_id
        s == BoxGet(ctx.boxes, state_key)
    IN  IF ~s.exists THEN "NotFound" ELSE "OK"

\* State transition check: the batch must exist and be in CREATED state.
ApproveStateCheck(ctx, batch_id) ==
    LET state_key == BATCH_PREFIX \o batch_id
        s == BoxGet(ctx.boxes, state_key)
    IN  IF ~s.exists THEN "NotFound"
        ELSE IF btoi(s.val) # 0 THEN "InvalidTransition"
        ELSE "OK"

\* Variant: the state transition check comes before the role check.
approve_batch_v2_StateFirst(ctx, sender, batch_id) ==
    IF ApproveStateCheck(ctx, batch_id) # "OK"
    THEN Fail(ctx, ApproveStateCheck(ctx, batch_id))
    ELSE IF ApproveRoleCheck(ctx, sender) # "OK"
    THEN Fail(ctx, ApproveRoleCheck(ctx, sender))
    ELSE
      LET state_key == BATCH_PREFIX \o batch_id
          c1 == BoxPut(ctx, state_key, itob(1))
      IN
      IF c1.err # "OK" THEN c1
      ELSE Return(
             Emit(c1, "approve_batch",
                  LogEvent(<<97, 112, 112, 114, 111, 118, 101, 95, 98, 97,
                             116, 99, 104, 124>>, batch_id, sender)),
             1)

approve_batch_v2(ctx, sender, batch_id) ==
    IF ApproveRoleCheck(ctx, sender) # "OK"
    THEN Fail(ctx, ApproveRoleCheck(ctx, sender))
    ELSE IF ApproveStateCheck(ctx, batch_id) # "OK"
    THEN Fail(ctx, ApproveStateCheck(ctx, batch_id))
    ELSE
      LET state_key == BATCH_PREFIX \o batch_id
          c1 == BoxPut(ctx, state_key, itob(1))
      IN
      IF c1.err # "OK" THEN c1
      ELSE Return(
             Emit(c1, "approve_batch",
                  LogEvent(<<97, 112, 112, 114, 111, 118, 101, 95, 98, 97,
                             116, 99, 104, 124>>, batch_id, sender)),
             1)

\* ----------------------------------------------------------- certify_batch

\* Variant: the verdict on the inner transaction is not looked at.
SubmitAssetConfig_Unchecked(ctx, asset_name, mintOk) ==
    [ctx EXCEPT
       !.assets = Append(ctx.assets,
                         [id |-> Len(ctx.assets) + 1,
                          asset_name |-> asset_name,
                          unit_name |-> <<67, 69, 82, 84>>,
                          total |-> 1, decimals |-> 0])]

\* itxn.AssetConfig(...).submit(): the inner transaction creating the
\* certificate.  mintOk is the ledger's verdict on it (fee and minimum
\* balance cover it or not); a refused inner transaction fails the call.
\* The ledger numbers the created assets from 1.
SubmitAssetConfig(ctx, asset_name, mintOk) ==
    IF ~mintOk THEN Fail(ctx, "MintingFailure")
    ELSE [ctx EXCEPT
            !.assets = Append(ctx.assets,
                              [id |-> Len(ctx.assets) + 1,
                               asset_name |-> asset_name,
                               unit_name |-> <<67, 69, 82, 84>>,
                               total |-> 1, decimals |-> 0])]

\* Variant: the identifier of the first asset the application created.
CreatedAssetId_First(ctx) == ctx.assets[1].id

\* created_asset.created_asset.id of the inner transaction just submitted.
CreatedAssetId(ctx) == ctx.assets[Len(ctx.assets)].id

\* Role check: admin OR inspector.
CertifyRoleCheck(ctx, sender) ==
    LET is_admin == sender = creator_address
        role_key == ROLE_PREFIX \o sender
        r == BoxGet(ctx.boxes, role_key)
    IN  IF is_admin THEN "OK"
        ELSE IF ~r.exists THEN "Unauthorized"
        ELSE IF btoi(r.val) # 2 THEN "Unauthorized"
        ELSE "OK"

\* Variant: a batch that is at least APPROVED may be certified.
CertifyStateCheck_AtLeastApproved(ctx, batch_id) ==
    LET state_key == BATCH_PREFIX \o batch_id
        s == BoxGet(ctx.boxes, state_key)
    IN  IF ~s.exists THEN "NotFound"
        ELSE IF btoi(s.val) < 1 THEN "InvalidTransition"
        ELSE "OK"

\* State transition check: the batch must exist and be in APPROVED state.
CertifyStateCheck(ctx, batch_id) ==
    LET state_key == BATCH_PREFIX \o batch_id
        s == BoxGet(ctx.boxes, state_key)
    IN  IF ~s.exists THEN "NotFound"
        ELSE IF btoi(s.val) # 1 THEN "InvalidTransition"
        ELSE "OK"

certify_batch(ctx, sender, batch_id, mintOk) ==
    IF CertifyRoleCheck(ctx, sender) # "OK"
    THEN Fail(ctx, CertifyRoleCheck(ctx, sender))
    ELSE IF CertifyStateCheck(ctx, batch_id) # "OK"
    THEN Fail(ctx, CertifyStateCheck(ctx, batch_id))
    ELSE
      LET state_key == BATCH_PREFIX \o batch_id
          c1 == BoxPut(ctx, state_key, itob(2))
      IN
      IF c1.err # "OK" THEN c1
      ELSE
        LET asset_name == CERT_PREFIX \o batch_id
            c2 == SubmitAssetConfig(c1, asset_name, mintOk)
        IN
        IF c2.err # "OK" THEN c2
        ELSE
          LET asa_id == CreatedAssetId(c2)
              asset_key == ASSET_PREFIX \o batch_id
              c3 == BoxPut(c2, asset_key, itob(asa_id))
          IN
          IF c3.err # "OK" THEN c3
          ELSE Return(
                 Emit(c3, "certify_batch",
                      LogEvent(<<99, 101, 114, 116, 105, 102, 121, 95, 98,
                                 97, 116, 99, 104, 124>>, batch_id, sender)),
                 2)

\* --------------------------------------------------------- read-only methods

\* Variant: an absent batch reads as 0.
get_batch_status_v2_Default0(ctx, batch_id) ==
    LET state_key == BATCH_PREFIX \o batch_id
        s == BoxGet(ctx.boxes, state_key)
    IN  IF s.exists THEN Return(ctx, btoi(s.val)) ELSE Return(ctx, 0)

get_batch_status_v2(ctx, batch_id) ==
    LET state_key == BATCH_PREFIX \o batch_id
        s == BoxGet(ctx.boxes, state_key)
    IN  IF s.exists THEN Return(ctx, btoi(s.val)) ELSE Return(ctx, 99)

\* Variant: the not-found sentinel of the status getter is returned.
get_batch_asset_NotFound99(ctx, batch_id) ==
    LET asset_key == ASSET_PREFIX \o batch_id
        a == BoxGet(ctx.boxes, asset_key)
    IN  IF a.exists THEN Return(ctx, btoi(a.val)) ELSE Return(ctx, 99)

get_batch_asset(ctx, batch_id) ==
    LET asset_key == ASSET_PREFIX \o batch_id
        a == BoxGet(ctx.boxes, asset_key)
    IN  IF a.exists THEN Return(ctx, btoi(a.val)) ELSE Return(ctx, 0)

\* arc4.String(vendor_val.decode()) holds the bytes of vendor_val again when
\* they decode.
get_vendor_batches(ctx, vendor) ==
    LET vendor_key == VENDOR_PREFIX \o vendor
        v == BoxGet(ctx.boxes, vendor_key)
    IN  IF v.exists
        THEN IF CanDecode(v.val) THEN [ctx EXCEPT !.retBytes = v.val]
             ELSE Fail(ctx, "DecodeFailure")
        ELSE [ctx EXCEPT !.retBytes = <<>>]

\* Variant: the stored role is returned for every account, the creator's
\* included.
get_role_StoredOnly(ctx, account) ==
    LET role_key == ROLE_PREFIX \o account
        r == BoxGet(ctx.boxes, role_key)
    IN  IF r.exists THEN Return(ctx, btoi(r.val)) ELSE Return(ctx, 99)

get_role(ctx, account) ==
    IF account = creator_address THEN Return(ctx, 0)
    ELSE
      LET role_key == ROLE_PREFIX \o account
          r == BoxGet(ctx.boxes, role_key)
      IN  IF r.exists THEN Return(ctx, btoi(r.val)) ELSE Return(ctx, 99)

\* ------------------------------------------------------------ the machine

NoCall ==
    [op |-> "none", sender |-> <<>>, batch |-> <<>>, account |-> <<>>,
     num |-> 0]

\* The application as created: no box, no asset, nothing emitted.
Fresh ==
    /\ boxes = EmptyBoxes
    /\ assets = <<>>
    /\ written = [b \in BatchIds |-> <<>>]
    /\ tokens = [b \in BatchIds |-> <<>>]
    /\ created = [a \in Accounts |-> <<>>]
    /\ audit = <<>>
    /\ calls = <<>>

Init == Fresh /\ observed = FALSE

\* The same application, in a run that follows the event log.
InitAudit == Fresh /\ observed = TRUE

\* The methods that change storage.
StateChanging ==
    {"assign_role", "create_batch_v2", "approve_batch_v2", "certify_batch"}

\* The integers a call wrote to the box named key, in order.
PutsTo(puts, key) ==
    LET sel == SelectSeq(puts, LAMBDA p : p.key = key)
    IN  [i \in 1..Len(sel) |-> btoi(sel[i].val)]

\* What the ledger takes from a call that ended in r: the handler's working
\* copy (boxes, created assets) and its events when the handler returned;
\* the boxes and assets as they were, and no event, when it failed.
Commit(r) ==
    IF r.err = "OK"
    THEN [boxes |-> r.boxes, assets |-> r.assets, log |-> r.log]
    ELSE [boxes |-> boxes, assets |-> assets, log |-> <<>>]

\* One application call, to completion.  call names the method and its
\* inputs; r is the context the handler ended with.
AppCall(call, r) ==
    /\ Cardinality({b \in BatchIds :
                      (BATCH_PREFIX \o b) \in DOMAIN Commit(r).boxes})
         <= MaxBatches
    /\ boxes' = Commit(r).boxes
    /\ assets' = Commit(r).assets
    /\ written' = [b \in BatchIds |->
                     written[b] \o
                     IF r.err = "OK" THEN PutsTo(r.puts, BATCH_PREFIX \o b)
                     ELSE <<>>]
    /\ tokens' = [b \in BatchIds |->
                    tokens[b] \o
                    IF r.err = "OK" THEN PutsTo(r.puts, ASSET_PREFIX \o b)
                    ELSE <<>>]
    /\ created' = IF r.err = "OK" /\ call.op = "create_batch_v2"
                  THEN [created EXCEPT ![call.sender] = Append(@, call.batch)]
                  ELSE created
    /\ observed' = observed
    /\ audit' = IF observed THEN audit \o Commit(r).log ELSE audit
    /\ calls' = IF observed /\ r.err = "OK" /\ call.op \in StateChanging
                THEN Append(calls, call) ELSE calls
    /\ Len(audit') <= MaxEvents

AssignRoleCall(sender, account, role) ==
    AppCall([NoCall EXCEPT !.op = "assign_role", !.sender = sender,
                           !.account = account, !.num = role],
            assign_role(Start, sender, account, role))

CreateBatchV2Call(sender, batch_id) ==
    AppCall([NoCall EXCEPT !.op = "create_batch_v2", !.sender = sender,
                           !.batch = batch_id],
            create_batch_v2(Start, sender, batch_id))

ApproveBatchV2Call(sender, batch_id) ==
    AppCall([NoCall EXCEPT !.op = "approve_batch_v2", !.sender = sender,
                           !.batch = batch_id],
            approve_batch_v2(Start, sender, batch_id))

CertifyBatchCall(sender, batch_id, mintOk) ==
    AppCall([NoCall EXCEPT !.op = "certify_batch", !.sender = sender,
                           !.batch = batch_id],
            certify_batch(Start, sender, batch_id, mintOk))

AssignRole ==
    \E sender \in Accounts, account \in Accounts, role \in RoleArgs :
        AssignRoleCall(sender, account, role)

CreateBatchV2 ==
    \E sender \in Accounts, batch_id \in BatchIds :
        CreateBatchV2Call(sender, batch_id)

ApproveBatchV2 ==
    \E sender \in Accounts, batch_id \in BatchIds :
        ApproveBatchV2Call(sender, batch_id)

CertifyBatch ==
    \E sender \in Accounts, batch_id \in BatchIds, mintOk \in BOOLEAN :
        CertifyBatchCall(sender, batch_id, mintOk)

\* The original integer-keyed methods, called by any sender.
LegacyCall ==
    \E batch_id \in LegacyIds :
        \/ AppCall([NoCall EXCEPT !.op = "create_batch", !.num = batch_id],
                   create_batch(Start, batch_id))
        \/ AppCall([NoCall EXCEPT !.op = "approve_batch", !.num = batch_id],
                   approve_batch(Start, batch_id))
        \/ AppCall([NoCall EXCEPT !.op = "get_batch_status",
                                  !.num = batch_id],
                   get_batch_status(Start, batch_id))

\* The read-only methods, called by any sender (none reads Txn.sender).
ReadCall ==
    \/ \E batch_id \in BatchIds :
         AppCall([NoCall EXCEPT !.op = "get_batch_status_v2",
                                !.batch = batch_id],
                 get_batch_status_v2(Start, batch_id))
    \/ \E batch_id \in BatchIds :
         AppCall([NoCall EXCEPT !.op = "get_batch_asset",
                                !.batch = batch_id],
                 get_batch_asset(Start, batch_id))
    \/ \E account \in Accounts :
         AppCall([NoCall EXCEPT !.op = "get_vendor_batches",
                                !.account = account],
                 get_vendor_batches(Start, account))
    \/ \E account \in Accounts :
         AppCall([NoCall EXCEPT !.op = "get_role", !.account = account],
                 get_role(Start, account))

Next ==
    \/ AssignRole
    \/ CreateBatchV2
    \/ ApproveBatchV2
    \/ CertifyBatch
    \/ LegacyCall
    \/ ReadCall

Spec == Init /\ [][Next]_vars

\* The runs that follow the event log.
SpecAudit == InitAudit /\ [][Next]_vars

\* ------------------------------------------------------------ observations

\* What the read-only methods return in the current state.
Status(b) == get_batch_status_v2(Start, b).ret
Asset(b) == get_batch_asset(Start, b).ret

\* What a get_vendor_batches call that ended in r hands to its caller: the
\* string it returned, or the failure (and then no string at all).
Reply(r) ==
    [err |-> r.err, val |-> IF r.err = "OK" THEN r.retBytes ELSE <<>>]

\* The reply of a get_vendor_batches call that returns the string val.
Returned(val) == [err |-> "OK", val |-> val]

VendorBatches(v) == Reply(get_vendor_batches(Start, v))

\* The role stored for an account (99 when none), read off the box itself.
StoredRole(a) ==
    IF (ROLE_PREFIX \o a) \in DOMAIN boxes
    THEN btoi(boxes[ROLE_PREFIX \o a]) ELSE 99

\* May the account certify: the Administrator, or a stored Inspector.
MayCertify(a) == a = creator_address \/ StoredRole(a) = ROLE_INSPECTOR

IsPrefix(s, t) == Len(s) <= Len(t) /\ s = SubSeq(t, 1, Len(s))

Range(s) == {s[i] : i \in 1..Len(s)}

\* The batch identifiers of ids, joined by the delimiter.
RECURSIVE Join(_)
Join(ids) ==
    IF Len(ids) = 0 THEN <<>>
    ELSE IF Len(ids) = 1 THEN ids[1]
    ELSE Join(SubSeq(ids, 1, Len(ids) - 1)) \o PIPE \o ids[Len(ids)]

\* The working copy the next call starts from, after a call that ended in r.
After(r) == Ctx(Commit(r).boxes, Commit(r).assets)

\* What the read-only methods return after a call that ended in r.
StatusAfter(r, b) == get_batch_status_v2(After(r), b).ret
AssetAfter(r, b) == get_batch_asset(After(r), b).ret
VendorBatchesAfter(r, v) == Reply(get_vendor_batches(After(r), v))

\* The list stored for vendor v after a call that ended in r (empty when
\* none is stored).
StoredListAfter(r, v) ==
    BoxGet(Commit(r).boxes, VENDOR_PREFIX \o v).val

\* Has b been the argument of a committed create_batch_v2.
EverCreated(b) == \E v \in Accounts : b \in Range(created[v])

\* ------------------------------------------------------------------- C1

\* C1: the values committed to a batch's state box form a prefix of
\* <<0, 1, 2>>, the stored state is the last of them, and approve_batch_v2
\* (certify_batch) returns successfully only from state Created (Approved).
C1_MonotonicTransitions ==
    \A b \in BatchIds :
        /\ IsPrefix(written[b], <<STATUS_CREATED, STATUS_APPROVED,
                                  STATUS_CERTIFIED>>)
        /\ Status(b) = IF written[b] = <<>> THEN NOT_FOUND
                       ELSE written[b][Len(written[b])]
        /\ \A s \in Accounts :
             /\ approve_batch_v2(Start, s, b).err = "OK"
                  => Status(b) = STATUS_CREATED
             /\ certify_batch(Start, s, b, TRUE).err = "OK"
                  => Status(b) = STATUS_APPROVED

\* A batch has gone through Created, Approved, Certified.
C1_Witness ==
    \E b \in BatchIds :
        written[b] = <<0, 1, 2>>

\* ------------------------------------------------------------------- C2

\* The role gate of the byte-keyed methods and of assign_role, for sender s:
\* a call fails with Unauthorized exactly when s lacks the role the method
\* asks for.
ByteKeyedRoleGate(s) ==
    /\ \A b \in BatchIds :
         /\ create_batch_v2(Start, s, b).err = "Unauthorized"
              <=> StoredRole(s) # ROLE_VENDOR
         /\ approve_batch_v2(Start, s, b).err = "Unauthorized"
              <=> StoredRole(s) # ROLE_INSPECTOR
         /\ \A m \in BOOLEAN :
              certify_batch(Start, s, b, m).err = "Unauthorized"
                <=> ~MayCertify(s)
    /\ \A a \in Accounts, role \in RoleArgs :
         assign_role(Start, s, a, role).err = "Unauthorized"
           <=> s # creator_address

\* C2 (as amended): the byte-keyed create_batch_v2 admits only senders with
\* stored role Vendor, approve_batch_v2 only stored Inspectors,
\* certify_batch only the Administrator or stored Inspectors, assign_role
\* only the Administrator, and every other sender fails with Unauthorized;
\* the original integer-keyed create_batch and approve_batch succeed for
\* every sender.
C2_RoleGate ==
    \A s \in Accounts :
        /\ ByteKeyedRoleGate(s)
        /\ \A n \in LegacyIds :
             /\ create_batch(Start, n).err = "OK"
             /\ approve_batch(Start, n).err = "OK"

\* C2 (as claimed): the gate holds of every create_batch and approve_batch
\* entry point, the integer-keyed ones included.
C2_RoleGateAllEntryPoints ==
    \A s \in Accounts :
        /\ ByteKeyedRoleGate(s)
        /\ \A n \in LegacyIds :
             /\ create_batch(Start, n).err =
                  IF StoredRole(s) = ROLE_VENDOR THEN "OK" ELSE "Unauthorized"
             /\ approve_batch(Start, n).err =
                  IF StoredRole(s) = ROLE_INSPECTOR THEN "OK"
                  ELSE "Unauthorized"

\* A Vendor has created a batch and an Inspector can approve it, while the
\* Inspector cannot create and the Vendor cannot approve or certify.
C2_Witness ==
    \E v, i \in Accounts, b \in BatchIds :
        /\ StoredRole(v) = ROLE_VENDOR /\ StoredRole(i) = ROLE_INSPECTOR
        /\ v # creator_address
        /\ b \in Range(created[v])
        /\ approve_batch_v2(Start, i, b).err = "OK"
        /\ approve_batch_v2(Start, v, b).err = "Unauthorized"
        /\ create_batch_v2(Start, i, b).err = "Unauthorized"
        /\ certify_batch(Start, v, b, TRUE).err = "Unauthorized"

\* ------------------------------------------------------------------- C3

\* Does the call that ended in r write the asset box of b.
WritesAsset(r, b) == PutsTo(r.puts, ASSET_PREFIX \o b) # <<>>

\* C3: a batch's asset box is written at most once, so the stored token
\* identifier never changes; it has been written exactly when the batch went
\* from Approved to Certified; and in every state the only call that writes
\* it is a certify_batch on that batch, found Approved with no asset yet.
C3_CertificationUniqueness ==
    \A b \in BatchIds :
        /\ Len(tokens[b]) <= 1
        /\ tokens[b] # <<>> <=> written[b] = <<0, 1, 2>>
        /\ Asset(b) = IF tokens[b] = <<>> THEN NO_ASSET ELSE tokens[b][1]
        /\ \A s \in Accounts :
             /\ \A a \in Accounts, role \in RoleArgs :
                    ~WritesAsset(assign_role(Start, s, a, role), b)
             /\ \A c \in BatchIds :
                    /\ ~WritesAsset(create_batch_v2(Start, s, c), b)
                    /\ ~WritesAsset(approve_batch_v2(Start, s, c), b)
                    /\ WritesAsset(certify_batch(Start, s, c, TRUE), b)
                         => /\ c = b
                            /\ Status(b) = STATUS_APPROVED
                            /\ tokens[b] = <<>>

\* A certify_batch call has written an asset box.
C3_Witness ==
    \E b \in BatchIds :
        /\ Len(tokens[b]) = 1
        /\ Asset(b) = tokens[b][1]
        /\ written[b] = <<0, 1, 2>>

\* ------------------------------------------------------------------- C8

\* C8: get_batch_asset returns a nonzero token identifier exactly for the
\* batches whose status is Certified, and 0 for absent, Created and
\* Approved batches.
C8_AssetIffCertified ==
    \A b \in BatchIds :
        /\ (Asset(b) # NO_ASSET) <=> (Status(b) = STATUS_CERTIFIED)
        /\ Status(b) \in {NOT_FOUND, STATUS_CREATED, STATUS_APPROVED}
             => Asset(b) = 0

\* One batch is certified and holds a token while another is not.
C8_Witness ==
    \E b1, b2 \in BatchIds :
        /\ Status(b1) = STATUS_CERTIFIED /\ Asset(b1) # 0
        /\ Status(b2) \in {STATUS_CREATED, STATUS_APPROVED} /\ Asset(b2) = 0

\* ------------------------------------------------------------------- C4

\* A call that failed leaves boxes and assets as they were and adds no
\* event.
FailureDiscards(r) ==
    r.err # "OK" =>
        Commit(r) = [boxes |-> boxes, assets |-> assets, log |-> <<>>]

\* C4: every failing call leaves the boxes (roles, batch states, assets,
\* vendor lists) and the created assets as they were and adds no event; a
\* certify_batch whose mint is refused fails with MintingFailure after it
\* has issued the write of Certified, yet the batch still reads Approved and
\* has no asset box.
C4_FailureAtomicity ==
    \A s \in Accounts :
        /\ \A a \in Accounts, role \in RoleArgs :
             FailureDiscards(assign_role(Start, s, a, role))
        /\ \A b \in BatchIds :
             /\ FailureDiscards(create_batch_v2(Start, s, b))
             /\ FailureDiscards(approve_batch_v2(Start, s, b))
             /\ \A m \in BOOLEAN :
                  FailureDiscards(certify_batch(Start, s, b, m))
             /\ (MayCertify(s) /\ Status(b) = STATUS_APPROVED) =>
                  LET r == certify_batch(Start, s, b, FALSE) IN
                    /\ r.err = "MintingFailure"
                    /\ r.puts = <<[key |-> BATCH_PREFIX \o b,
                                   val |-> itob(STATUS_CERTIFIED)]>>
                    /\ StatusAfter(r, b) = STATUS_APPROVED
                    /\ AssetAfter(r, b) = NO_ASSET
                    /\ (ASSET_PREFIX \o b) \notin DOMAIN Commit(r).boxes

\* An Approved batch on which a certify_batch with a refused mint fails
\* after staging the state write, while other calls fail for other reasons.
C4_Witness ==
    \E s \in Accounts, b \in BatchIds :
        /\ written[b] = <<0, 1>>
        /\ certify_batch(Start, s, b, FALSE).err = "MintingFailure"
        /\ Len(certify_batch(Start, s, b, FALSE).puts) = 1
        /\ \E i \in Accounts :
             approve_batch_v2(Start, i, b).err = "InvalidTransition"

\* ------------------------------------------------------------------- C5

\* C5 (as amended): once a create_batch_v2 with identifier b has committed,
\* every later create_batch_v2 with b fails, with AlreadyExists when the
\* sender holds the stored role Vendor and with Unauthorized otherwise, and
\* leaves the boxes unchanged.
C5_CreateRejectsDuplicate ==
    \A b \in BatchIds :
        EverCreated(b) =>
            \A s \in Accounts :
                LET r == create_batch_v2(Start, s, b) IN
                  /\ r.err = IF StoredRole(s) = ROLE_VENDOR
                             THEN "AlreadyExists" ELSE "Unauthorized"
                  /\ Commit(r).boxes = boxes

\* C5 (as claimed): every later create_batch_v2 with b fails with
\* AlreadyExists whoever the sender is.
C5_AlreadyExistsForEveryCaller ==
    \A b \in BatchIds :
        EverCreated(b) =>
            \A s \in Accounts :
                LET r == create_batch_v2(Start, s, b) IN
                  /\ r.err = "AlreadyExists"
                  /\ Commit(r).boxes = boxes

\* A batch exists; its creator and another Vendor are rejected with
\* AlreadyExists, a sender without the Vendor role with Unauthorized.
C5_Witness ==
    \E b \in BatchIds, v, w, u \in Accounts :
        /\ b \in Range(created[v]) /\ StoredRole(v) = ROLE_VENDOR
        /\ w # v /\ StoredRole(w) = ROLE_VENDOR
        /\ create_batch_v2(Start, v, b).err = "AlreadyExists"
        /\ create_batch_v2(Start, w, b).err = "AlreadyExists"
        /\ create_batch_v2(Start, u, b).err = "Unauthorized"

\* ------------------------------------------------------------------- C6

\* C6: for every account v, get_vendor_batches(v) returns the "|"-join of
\* the identifiers of v's committed create_batch_v2 calls in call order (the
\* empty string if none), so nothing created by another account is in it;
\* and every create_batch_v2 that succeeds extends the sender's list, as a
\* prefix, by the created identifier and leaves every other account's list
\* as it was.
C6_VendorListIntegrity ==
    \A v \in Accounts :
        /\ VendorBatches(v) = Returned(Join(created[v]))
        /\ \A b \in BatchIds :
             LET r == create_batch_v2(Start, v, b) IN
               r.err = "OK" =>
                 /\ VendorBatchesAfter(r, v)
                      = Returned(Join(Append(created[v], b)))
                 /\ IsPrefix(Join(created[v]), VendorBatchesAfter(r, v).val)
                 /\ \A w \in Accounts \ {v} :
                      VendorBatchesAfter(r, w) = VendorBatches(w)

\* ------------------------------------------------------------------- C7

\* C7: of two create_batch_v2 attempts by Vendors on an identifier not yet
\* stored, taken in either order, the first succeeds and the second fails
\* with AlreadyExists; afterwards the batch is Created and is the last entry
\* of the winner's list.
C7_ConcurrentCreation ==
    \A s1, s2 \in Accounts, b \in BatchIds :
        (/\ StoredRole(s1) = ROLE_VENDOR /\ StoredRole(s2) = ROLE_VENDOR
         /\ Status(b) = NOT_FOUND) =>
            LET r1 == create_batch_v2(Start, s1, b)
                r2 == create_batch_v2(After(r1), s2, b)
            IN  /\ r1.err = "OK"
                /\ r2.err = "AlreadyExists"
                /\ StatusAfter(r1, b) = STATUS_CREATED
                /\ StoredListAfter(r1, s1) = Join(Append(created[s1], b))
                /\ s2 # s1 => StoredListAfter(r1, s2) = Join(created[s2])

\* ------------------------------------------------------------------- C9

\* C9 (as amended): for a byte-string identifier that no committed
\* create_batch_v2 was given, get_batch_status_v2 returns 99 and
\* get_batch_asset returns 0; the original integer-keyed get_batch_status
\* returns 1 for every argument.
C9_NeverCreatedReadsNotFound ==
    /\ \A b \in BatchIds :
         ~EverCreated(b) => Status(b) = NOT_FOUND /\ Asset(b) = NO_ASSET
    /\ \A n \in LegacyIds :
         get_batch_status(Start, n).ret = 1

\* C9 (as claimed): every get_batch_status entry point, the integer-keyed
\* one included, returns 99 for an identifier never created.
C9_EveryStatusEntryPoint ==
    /\ \A b \in BatchIds :
         ~EverCreated(b) => Status(b) = NOT_FOUND /\ Asset(b) = NO_ASSET
    /\ \A n \in LegacyIds :
         get_batch_status(Start, n).ret = NOT_FOUND

\* One batch is certified and holds a token while another identifier was
\* never created and reads 99 and 0.
C9_Witness ==
    \E b1, b2 \in BatchIds :
        /\ EverCreated(b1) /\ Status(b1) = STATUS_CERTIFIED
        /\ ~EverCreated(b2)
        /\ Status(b2) = NOT_FOUND /\ Asset(b2) = NO_ASSET

\* ------------------------------------------------------------------ C10

\* C10 (as amended): on an identifier with no stored state,
\* approve_batch_v2 and certify_batch fail with NotFound when the sender
\* passes the role check and with Unauthorized otherwise, and write nothing.
C10_AbsentBatchNotFound ==
    \A b \in BatchIds :
        Status(b) = NOT_FOUND =>
            \A s \in Accounts :
                /\ LET r == approve_batch_v2(Start, s, b) IN
                     /\ r.err = IF StoredRole(s) = ROLE_INSPECTOR
                                THEN "NotFound" ELSE "Unauthorized"
                     /\ r.puts = <<>>
                     /\ Commit(r).boxes = boxes
                /\ \A m \in BOOLEAN :
                     LET r == certify_batch(Start, s, b, m) IN
                       /\ r.err = IF MayCertify(s)
                                  THEN "NotFound" ELSE "Unauthorized"
                       /\ r.puts = <<>>
                       /\ Commit(r).boxes = boxes

\* C10 (as claimed): they fail with NotFound whoever the sender is.
C10_NotFoundForEveryCaller ==
    \A b \in BatchIds :
        Status(b) = NOT_FOUND =>
            \A s \in Accounts :
                /\ approve_batch_v2(Start, s, b).err = "NotFound"
                /\ \A m \in BOOLEAN :
                     certify_batch(Start, s, b, m).err = "NotFound"

\* An Inspector has approved one batch, while approve_batch_v2 and
\* certify_batch on an absent identifier yield NotFound for the Inspector
\* and Unauthorized for a sender without that role.
C10_Witness ==
    \E b \in BatchIds, i, u \in Accounts :
        /\ Status(b) = NOT_FOUND
        /\ \E c \in BatchIds : written[c] = <<0, 1>>
        /\ StoredRole(i) = ROLE_INSPECTOR
        /\ approve_batch_v2(Start, i, b).err = "NotFound"
        /\ certify_batch(Start, i, b, TRUE).err = "NotFound"
        /\ approve_batch_v2(Start, u, b).err = "Unauthorized"
        /\ certify_batch(Start, u, b, TRUE).err = "Unauthorized"

\* ------------------------------------------------------------------ C11

\* What get_role returns in the current state.
Role(a) == get_role(Start, a).ret

\* C11 (as amended): create_batch_v2 passes its role check exactly when the
\* sender's stored role is Vendor, approve_batch_v2 exactly when it is
\* Inspector; get_role returns that stored role (99 when none) for every
\* account but the Administrator, for whom it returns 0 whatever is stored.
C11_RoleCheckUsesStoredRole ==
    \A c \in Accounts :
        /\ CreateRoleCheck(Start, c) = "OK" <=> StoredRole(c) = ROLE_VENDOR
        /\ ApproveRoleCheck(Start, c) = "OK" <=> StoredRole(c) = ROLE_INSPECTOR
        /\ Role(c) = IF c = creator_address THEN ROLE_ADMIN ELSE StoredRole(c)
        /\ c # creator_address =>
             /\ CreateRoleCheck(Start, c) = "OK" <=> Role(c) = ROLE_VENDOR
             /\ ApproveRoleCheck(Start, c) = "OK" <=> Role(c) = ROLE_INSPECTOR

\* C11 (as claimed): for every caller the role checks pass exactly when
\* get_role returns Vendor, respectively Inspector.
C11_RoleCheckMatchesGetRole ==
    \A c \in Accounts :
        /\ CreateRoleCheck(Start, c) = "OK" <=> Role(c) = ROLE_VENDOR
        /\ ApproveRoleCheck(Start, c) = "OK" <=> Role(c) = ROLE_INSPECTOR

\* The Administrator has assigned itself Vendor and created a batch while
\* get_role still answers 0 for it; another account is an Inspector by both
\* accounts.
C11_Witness ==
    \E i \in Accounts :
        /\ StoredRole(creator_address) = ROLE_VENDOR
        /\ created[creator_address] # <<>>
        /\ Role(creator_address) = ROLE_ADMIN
        /\ i # creator_address
        /\ Role(i) = ROLE_INSPECTOR /\ ApproveRoleCheck(Start, i) = "OK"

\* ------------------------------------------------------------------ C12

\* Does the call that ended in r write the role box of a.
WritesRole(r, a) == PutsTo(r.puts, ROLE_PREFIX \o a) # <<>>

\* C12: every stored role is 1 or 2; the only call that writes the role box
\* of an account is an assign_role for that account, sent by the
\* Administrator with role 1 or 2, and it stores that role; assign_role
\* fails with Unauthorized for every other sender and with InvalidArgument
\* when the Administrator passes another role code.
C12_RoleStoreInvariant ==
    /\ \A a \in Accounts :
         (ROLE_PREFIX \o a) \in DOMAIN boxes =>
             btoi(boxes[ROLE_PREFIX \o a]) \in {ROLE_VENDOR, ROLE_INSPECTOR}
    /\ \A s \in Accounts, a \in Accounts :
         /\ \A b \in BatchIds :
              /\ ~WritesRole(create_batch_v2(Start, s, b), a)
              /\ ~WritesRole(approve_batch_v2(Start, s, b), a)
              /\ ~WritesRole(certify_batch(Start, s, b, TRUE), a)
         /\ \A t \in Accounts, role \in RoleArgs :
              LET r == assign_role(Start, s, t, role) IN
                /\ WritesRole(r, a) =>
                     /\ s = creator_address /\ t = a /\ r.err = "OK"
                     /\ role \in {ROLE_VENDOR, ROLE_INSPECTOR}
                     /\ PutsTo(r.puts, ROLE_PREFIX \o a) = <<role>>
                /\ r.err = IF s # creator_address THEN "Unauthorized"
                           ELSE IF role \notin {1, 2} THEN "InvalidArgument"
                           ELSE "OK"

\* A Vendor and an Inspector are stored, the Administrator can overwrite
\* the Vendor's role, and assign_role fails with Unauthorized for the Vendor
\* and with InvalidArgument for the Administrator passing 0 or 3.
C12_Witness ==
    \E v, i \in Accounts :
        /\ StoredRole(v) = ROLE_VENDOR /\ StoredRole(i) = ROLE_INSPECTOR
        /\ v # creator_address
        /\ WritesRole(assign_role(Start, creator_address, v, 2), v)
        /\ assign_role(Start, v, v, 2).err = "Unauthorized"
        /\ assign_role(Start, creator_address, v, 0).err = "InvalidArgument"
        /\ assign_role(Start, creator_address, v, 3).err = "InvalidArgument"

\* ------------------------------------------------------------------ C13

\* The name under which a method emits, as a string and as ASCII bytes.
ActionName(op) ==
    CASE op = "assign_role" -> "assign_role"
      [] op = "create_batch_v2" -> "create_batch"
      [] op = "approve_batch_v2" -> "approve_batch"
      [] op = "certify_batch" -> "certify_batch"

ActionBytes(op) ==
    CASE op = "assign_role" ->
           <<97, 115, 115, 105, 103, 110, 95, 114, 111, 108, 101>>
      [] op = "create_batch_v2" ->
           <<99, 114, 101, 97, 116, 101, 95, 98, 97, 116, 99, 104>>
      [] op = "approve_batch_v2" ->
           <<97, 112, 112, 114, 111, 118, 101, 95, 98, 97, 116, 99, 104>>
      [] op = "certify_batch" ->
           <<99, 101, 114, 116, 105, 102, 121, 95, 98, 97, 116, 99, 104>>

\* The event a committed call is to leave: the action, the hex of the
\* batch (of the account, for assign_role) and the hex of the caller.
ExpectedEvent(op, subject, sender) ==
    [name |-> ActionName(op),
     data |-> ActionBytes(op) \o PIPE \o hex(subject) \o PIPE \o hex(sender)]

\* The events of a call of op that ended in r: one, as expected, when it
\* returned; none kept when it failed.
OneEventIfOK(r, op, subject, sender) ==
    /\ r.err = "OK" => r.log = <<ExpectedEvent(op, subject, sender)>>
    /\ r.err # "OK" => Commit(r).log = <<>>

\* In every state, whatever call comes next leaves one event if it is a
\* state-changing call that returns, and none otherwise.
EventsPerCall ==
    /\ \A s \in Accounts :
         /\ \A a \in Accounts, role \in RoleArgs :
              OneEventIfOK(assign_role(Start, s, a, role),
                           "assign_role", a, s)
         /\ \A b \in BatchIds :
              /\ OneEventIfOK(create_batch_v2(Start, s, b),
                              "create_batch_v2", b, s)
              /\ OneEventIfOK(approve_batch_v2(Start, s, b),
                              "approve_batch_v2", b, s)
              /\ \A m \in BOOLEAN :
                   OneEventIfOK(certify_batch(Start, s, b, m),
                                "certify_batch", b, s)
    /\ \A b \in BatchIds :
         /\ get_batch_status_v2(Start, b).log = <<>>
         /\ get_batch_asset(Start, b).log = <<>>
    /\ \A a \in Accounts :
         /\ get_vendor_batches(Start, a).log = <<>>
         /\ get_role(Start, a).log = <<>>

\* The log so far is, entry by entry, the expected events of the committed
\* state-changing calls so far, in their order.
AuditFollowsCalls ==
    /\ Len(audit) = Len(calls)
    /\ \A i \in 1..Len(calls) :
         audit[i] = ExpectedEvent(calls[i].op,
                                  IF calls[i].op = "assign_role"
                                  THEN calls[i].account ELSE calls[i].batch,
                                  calls[i].sender)

\* C13: every committed assign_role, create_batch_v2, approve_batch_v2 and
\* certify_batch call appends exactly one event naming the action, its
\* subject and the caller; failed calls and read-only calls append none; the
\* log only grows at its end, so it lists the committed state-changing
\* calls in their order.
C13_AuditTrail ==
    /\ [](EventsPerCall /\ AuditFollowsCalls)
    /\ [][IsPrefix(audit, audit') /\ Len(audit') <= Len(audit) + 1]_vars

\* A followed run has logged two role assignments, a creation and an
\* approval, while a failing creation and a certification that would add a
\* fifth event are at hand.
C13_Witness ==
    /\ observed
    /\ Len(audit) = 4
    /\ audit[1].name = "assign_role" /\ audit[2].name = "assign_role"
    /\ audit[3].name = "create_batch" /\ audit[4].name = "approve_batch"
    /\ \E s \in Accounts, b \in BatchIds :
         /\ certify_batch(Start, s, b, TRUE).log # <<>>
         /\ create_batch_v2(Start, s, b).err = "Unauthorized"

\* ------------------------------------------------------------------ C14

\* A call that ended in r returned, wrote nothing and emitted nothing.
PureRead(r) ==
    /\ r.err = "OK"
    /\ r.puts = <<>> /\ r.log = <<>>
    /\ Commit(r).boxes = boxes /\ Commit(r).assets = assets

\* C14: get_role, get_batch_status_v2, get_batch_asset and
\* get_vendor_batches return for every argument in every state, write and
\* emit nothing, and answer 99, 99, 0 and the empty string when nothing is
\* stored under the argument.
C14_ReadsPureAndTotal ==
    /\ \A b \in BatchIds :
         /\ PureRead(get_batch_status_v2(Start, b))
         /\ PureRead(get_batch_asset(Start, b))
         /\ (BATCH_PREFIX \o b) \notin DOMAIN boxes =>
              get_batch_status_v2(Start, b).ret = NOT_FOUND
         /\ (ASSET_PREFIX \o b) \notin DOMAIN boxes =>
              get_batch_asset(Start, b).ret = NO_ASSET
    /\ \A a \in Accounts :
         /\ PureRead(get_role(Start, a))
         /\ PureRead(get_vendor_batches(Start, a))
         /\ (a # creator_address /\ (ROLE_PREFIX \o a) \notin DOMAIN boxes) =>
              get_role(Start, a).ret = ROLE_NONE
         /\ (VENDOR_PREFIX \o a) \notin DOMAIN boxes =>
              get_vendor_batches(Start, a).retBytes = <<>>

\* ------------------------------------------------------------------ C15

\* The batch identifiers that have a state box in the store bx.
StateKeys(bx) == {b \in BatchIds : (BATCH_PREFIX \o b) \in DOMAIN bx}

\* In every state: a batch has a state box exactly when a create_batch_v2
\* for it has committed, the box holds 8 bytes, and no call other than
\* create_batch_v2 adds a state box.
StateKeysFromCreate ==
    /\ \A b \in BatchIds :
         /\ b \in StateKeys(boxes) <=> EverCreated(b)
         /\ b \in StateKeys(boxes) =>
              /\ Len(boxes[BATCH_PREFIX \o b]) = 8
              /\ written[b] # <<>> /\ written[b][1] = STATUS_CREATED
    /\ \A s \in Accounts :
         /\ \A a \in Accounts, role \in RoleArgs :
              StateKeys(Commit(assign_role(Start, s, a, role)).boxes)
                = StateKeys(boxes)
         /\ \A b \in BatchIds :
              /\ StateKeys(Commit(approve_batch_v2(Start, s, b)).boxes)
                   = StateKeys(boxes)
              /\ StateKeys(Commit(certify_batch(Start, s, b, TRUE)).boxes)
                   = StateKeys(boxes)
              /\ StateKeys(Commit(create_batch_v2(Start, s, b)).boxes)
                   \subseteq StateKeys(boxes) \cup {b}

\* C15: no call removes a box, whatever its kind (role, batch state, asset,
\* vendor list); a batch's state box appears only with a committed
\* create_batch_v2 for that batch and afterwards stays, only its 8-byte
\* value being overwritten.
C15_NoDeletion ==
    /\ []StateKeysFromCreate
    /\ [][/\ DOMAIN boxes \subseteq DOMAIN boxes'
          /\ \A b \in StateKeys(boxes') \ StateKeys(boxes) :
               \E v \in Accounts : created'[v] = Append(created[v], b)]_vars

\* Boxes of all four kinds exist, and one batch's state box, created by
\* create_batch_v2, has since been overwritten twice.
C15_Witness ==
    \E a \in Accounts, b \in BatchIds :
        /\ (ROLE_PREFIX \o a) \in DOMAIN boxes
        /\ (VENDOR_PREFIX \o a) \in DOMAIN boxes
        /\ (ASSET_PREFIX \o b) \in DOMAIN boxes
        /\ (BATCH_PREFIX \o b) \in DOMAIN boxes
        /\ b \in Range(created[a])
        /\ Len(written[b]) = 3

\* ------------------------------------------------------------------ C16

\* The positions of s that hold the delimiter byte.
Pipes(s) == {i \in 1..Len(s) : s[i] = PIPE[1]}

\* str.split("|"): the pieces of s between the delimiters.
RECURSIVE Split(_)
Split(s) ==
    IF Pipes(s) = {} THEN <<s>>
    ELSE LET i == CHOOSE j \in Pipes(s) : \A k \in Pipes(s) : j <= k
         IN  <<SubSeq(s, 1, i - 1)>> \o Split(SubSeq(s, i + 1, Len(s)))

\* The dashboard's list for vendor v: raw is the string get_vendor_batches
\* returned, batches = [b for b in raw.split("|") if b] its non-empty
\* pieces; when the call fails batches stays [].
ListElements(v) ==
    LET r == get_vendor_batches(Start, v)
    IN  IF r.err = "OK"
        THEN SelectSeq(Split(r.retBytes), LAMBDA p : p # <<>>)
        ELSE <<>>

\* How often b occurs among the elements of v's list.
Occurrences(v, b) ==
    Cardinality({i \in 1..Len(ListElements(v)) : ListElements(v)[i] = b})

\* C16: a batch identifier is an element of some vendor's list, as returned
\* by get_vendor_batches and split on the delimiter, exactly when it has a
\* state box, and it then occurs once, in the list of the vendor whose
\* create_batch_v2 created it.
C16_ListedIffStored ==
    \A b \in BatchIds :
        /\ (\E v \in Accounts : Occurrences(v, b) > 0)
             <=> (BATCH_PREFIX \o b) \in DOMAIN boxes
        /\ \A v \in Accounts :
             Occurrences(v, b) = IF b \in Range(created[v]) THEN 1 ELSE 0

\* ------------------------------------------------------------------ C17

\* C17: a call reports the first failing check in the order role, existence,
\* state: an unauthorized sender gets Unauthorized whatever the batch; an
\* authorized one gets AlreadyExists (create) or NotFound (approve, certify)
\* from the existence check before InvalidTransition from the state check;
\* assign_role reports Unauthorized before InvalidArgument.
C17_CheckOrder ==
    \A s \in Accounts :
        /\ \A b \in BatchIds :
             /\ create_batch_v2(Start, s, b).err =
                  IF StoredRole(s) # ROLE_VENDOR THEN "Unauthorized"
                  ELSE IF Status(b) # NOT_FOUND THEN "AlreadyExists"
                  ELSE create_batch_v2(Start, s, b).err
             /\ approve_batch_v2(Start, s, b).err =
                  IF StoredRole(s) # ROLE_INSPECTOR THEN "Unauthorized"
                  ELSE IF Status(b) = NOT_FOUND THEN "NotFound"
                  ELSE IF Status(b) # STATUS_CREATED THEN "InvalidTransition"
                  ELSE "OK"
             /\ \A m \in BOOLEAN :
                  certify_batch(Start, s, b, m).err =
                    IF ~MayCertify(s) THEN "Unauthorized"
                    ELSE IF Status(b) = NOT_FOUND THEN "NotFound"
                    ELSE IF Status(b) # STATUS_APPROVED
                    THEN "InvalidTransition"
                    ELSE IF m THEN "OK" ELSE "MintingFailure"
        /\ \A a \in Accounts, role \in RoleArgs :
             assign_role(Start, s, a, role).err =
               IF s # creator_address THEN "Unauthorized"
               ELSE IF role \notin {ROLE_VENDOR, ROLE_INSPECTOR}
               THEN "InvalidArgument"
               ELSE "OK"

\* Calls that break several preconditions at once: a sender without a role
\* creating an existing batch, approving and certifying a Certified batch
\* and an absent one, and assigning an invalid role, all get Unauthorized;
\* an Inspector gets InvalidTransition on the Certified batch and NotFound
\* on the absent one.
C17_Witness ==
    \E u, i \in Accounts, b, c \in BatchIds :
        /\ StoredRole(u) = ROLE_NONE /\ u # creator_address
        /\ StoredRole(i) = ROLE_INSPECTOR
        /\ Status(b) = STATUS_CERTIFIED /\ Status(c) = NOT_FOUND
        /\ create_batch_v2(Start, u, b).err = "Unauthorized"
        /\ approve_batch_v2(Start, u, b).err = "Unauthorized"
        /\ approve_batch_v2(Start, u, c).err = "Unauthorized"
        /\ certify_batch(Start, u, b, TRUE).err = "Unauthorized"
        /\ assign_role(Start, u, u, 3).err = "Unauthorized"
        /\ approve_batch_v2(Start, i, b).err = "InvalidTransition"
        /\ certify_batch(Start, i, c, TRUE).err = "NotFound"

\* ------------------------------------------------------------------ C18

\* The batches that read Certified.
Certified == {b \in BatchIds : Status(b) = STATUS_CERTIFIED}

\* The positions, among the assets created, of the certificates of batch b
\* with identifier id.
MintsOf(b, id) ==
    {i \in 1..Len(assets) :
       assets[i].id = id /\ assets[i].asset_name = CERT_PREFIX \o b}

\* C18: the assets created and the Certified batches correspond one to one:
\* an asset box exists exactly for the Certified batches and holds the
\* identifier of the one asset minted for that batch (total 1, named
\* CERT-<batch>), no two batches hold the same identifier, and every asset
\* created is the one held by a Certified batch.
C18_OneTokenPerCertifiedBatch ==
    /\ \A b \in BatchIds :
         /\ (ASSET_PREFIX \o b) \in DOMAIN boxes <=> b \in Certified
         /\ b \in Certified =>
              /\ Cardinality(MintsOf(b, Asset(b))) = 1
              /\ \A i \in MintsOf(b, Asset(b)) :
                   assets[i].total = 1 /\ assets[i].decimals = 0
    /\ \A b1, b2 \in Certified : b1 # b2 => Asset(b1) # Asset(b2)
    /\ \A i \in 1..Len(assets) :
         \E b \in Certified : i \in MintsOf(b, Asset(b))
    /\ Len(assets) = Cardinality(Certified)

\* Two batches are Certified and hold different tokens, after a refused
\* mint could have left a third.
C18_Witness ==
    \E b1, b2 \in Certified :
        /\ b1 # b2
        /\ Asset(b1) # Asset(b2)
        /\ Len(assets) = 2

\* ------------------------------------------------------------------ C19

\* A call that returned in r left every box outside keys as it was (none
\* added, none removed, none rewritten), and created `minted` assets.
Frame(r, keys, minted) ==
    r.err = "OK" =>
        /\ \A k \in (DOMAIN boxes \cup DOMAIN r.boxes) \ keys :
             /\ k \in DOMAIN boxes /\ k \in DOMAIN r.boxes
             /\ r.boxes[k] = boxes[k]
        /\ \A i \in 1..Len(r.puts) : r.puts[i].key \in keys
        /\ Len(r.assets) = Len(assets) + minted
        /\ SubSeq(r.assets, 1, Len(assets)) = assets

\* C19: a committed assign_role(account, role) changes only the role box of
\* account; create_batch_v2(b) by c only the state box of b and the list box
\* of c; approve_batch_v2(b) only the state box of b; certify_batch(b) only
\* the state box and the asset box of b, creating one asset.
C19_Frame ==
    \A s \in Accounts :
        /\ \A a \in Accounts, role \in RoleArgs :
             Frame(assign_role(Start, s, a, role), {ROLE_PREFIX \o a}, 0)
        /\ \A b \in BatchIds :
             /\ Frame(create_batch_v2(Start, s, b),
                      {BATCH_PREFIX \o b, VENDOR_PREFIX \o s}, 0)
             /\ Frame(approve_batch_v2(Start, s, b), {BATCH_PREFIX \o b}, 0)
             /\ Frame(certify_batch(Start, s, b, TRUE),
                      {BATCH_PREFIX \o b, ASSET_PREFIX \o b}, 1)

\* A Vendor created a batch and was then reassigned Inspector: its list and
\* the batch, since Certified with a token, are still there, and another
\* reassignment and another creation can follow.
C19_Witness ==
    \E v, w \in Accounts, b, c \in BatchIds :
        /\ b \in Range(created[v])
        /\ StoredRole(v) = ROLE_INSPECTOR
        /\ (VENDOR_PREFIX \o v) \in DOMAIN boxes
        /\ Status(b) = STATUS_CERTIFIED /\ Asset(b) # NO_ASSET
        /\ assign_role(Start, creator_address, v, 1).err = "OK"
        /\ create_batch_v2(Start, w, c).err = "OK"

\* ------------------------------------------------------------------ C20

\* A call that ended in r returned v and neither wrote, emitted nor minted.
ConstantReturn(r, v) ==
    /\ r.err = "OK" /\ r.ret = v
    /\ r.puts = <<>> /\ r.log = <<>>
    /\ r.boxes = boxes /\ r.assets = assets
    /\ Commit(r) = [boxes |-> boxes, assets |-> assets, log |-> <<>>]

\* C20: in every state and for every argument the integer-keyed
\* create_batch, approve_batch and get_batch_status return 0, 1 and 1, write
\* no box, create no asset and emit no event.
C20_LegacyConstant ==
    \A n \in LegacyIds :
        /\ ConstantReturn(create_batch(Start, n), 0)
        /\ ConstantReturn(approve_batch(Start, n), 1)
        /\ ConstantReturn(get_batch_status(Start, n), 1)

\* Roles, a Certified batch with its token and a vendor list are stored, and
\* the integer-keyed methods still answer 0, 1 and 1.
C20_Witness ==
    \E b \in BatchIds, v \in Accounts, n \in LegacyIds :
        /\ Status(b) = STATUS_CERTIFIED
        /\ b \in Range(created[v])
        /\ create_batch(Start, n).ret = 0
        /\ approve_batch(Start, n).ret = 1
        /\ get_batch_status(Start, n).ret = 1
        /\ get_batch_status(Start, n).ret # Status(b)

====
